---- MODULE Spec2Model ----
(***************************************************************************)
(* A model of the layered drawing builder (DrawingContextImpl), of the     *)
(* execution harness (executeCode) and of the generation lineage kept by   *)
(* simpleImageEditorAgent and the tRPC router.                             *)
(*                                                                         *)
(* The specifications share the variables:                                 *)
(*   SpecBuilder  one builder, driven call by call;                        *)
(*   SpecChain    the same calls as statements and as one chain;           *)
(*   SpecText     text() on every short content, then toSVG;               *)
(*   SpecHarness  executeCode calls, interleaved statement by statement;   *)
(*   Spec         the router, the agent runs and the two database tables;  *)
(*   SpecLive     Spec with the awaits of the agent settling;              *)
(*   SpecStorage  the two tables under the methods of DbStorage.           *)
(***************************************************************************)
EXTENDS Integers, Sequences, FiniteSets, TLC

VARIABLES
    ctx,         \* SpecBuilder: the DrawingContextImpl under test
    calls,       \* SpecBuilder: log of the calls made on ctx (history)
    out,         \* SpecBuilder: what the last toSVG()/toPNG() returned
    exec,        \* SpecHarness: the executeCode calls in flight
    thread,      \* Spec: rows of table thread, the id is the index
    generation,  \* Spec: rows of table generation, the id is the index
    run          \* Spec: the router requests and their agent runs

vars == <<ctx, calls, out, exec, thread, generation, run>>

\* ------------------------------------------------------------------ bounds
MaxCalls == 3        \* calls made on the builder of SpecBuilder
MaxExecs == 3        \* executeCode calls started in SpecHarness
MaxThreads == 1      \* rows of table thread
MaxGens == 3         \* rows of table generation
MaxRuns == 2         \* router requests that reach the agent
MaxContentLen == 4   \* characters of the content given to text() in SpecText

\* -------------------------------------------------------- program constants
DefaultCanvasSize == 512
DefaultStrokeWidth == 0
DefaultOpacity == 1
DefaultBorderRadius == 0
DefaultLineWidth == 1
DefaultTextSize == 16
DefaultTextWeight == 400
StepLimit == 10

\* ------------------------------------------------------------------ helpers
\* opts?.f ?? d : the field of an options object, or d when it is omitted.
\* An omitted options object is the empty record <<>>.
Opt(opts, f, d) == IF f \in DOMAIN opts THEN opts[f] ELSE d

NoOpts == <<>>

RECURSIVE ReplaceAll(_, _, _)
\* String.prototype.replace(/c/g, rep) on a string given as its characters.
ReplaceAll(s, c, rep) ==
    IF s = <<>> THEN <<>>
    ELSE (IF Head(s) = c THEN rep ELSE <<Head(s)>>) \o ReplaceAll(Tail(s), c, rep)

Amp == <<"&", "a", "m", "p", ";">>
Lt == <<"&", "l", "t", ";">>
Gt == <<"&", "g", "t", ";">>

\* A faulty text() that escapes '&' last, and so the entities of '<' and '>'.
EscapeContentAmpLast(content) ==
    ReplaceAll(ReplaceAll(ReplaceAll(content, "<", Lt), ">", Gt), "&", Amp)

\* The escaping of text(): '&' first, then '<', then '>'.
EscapeContent(content) ==
    ReplaceAll(ReplaceAll(ReplaceAll(content, "&", Amp), "<", Lt), ">", Gt)

Abs(n) == IF n < 0 THEN -n ELSE n

RECURSIVE Pow2(_)
Pow2(n) == IF n = 0 THEN 1 ELSE 2 * Pow2(n - 1)

\* The exponent of the binade of a positive integer: 2^Log2(n) <= n.
RECURSIVE Log2(_)
Log2(n) == IF n < 2 THEN 0 ELSE 1 + Log2(n \div 2)

\* Math.cos((a * Math.PI) / 180) as a double, for the multiples of 90 from
\* -360 to 720. The result is exactly 1 or -1, or it is the residue that the
\* rounding of Math.PI leaves where the cosine is 0: a double far below one
\* ulp of 1, given here in units of 2^-68 to the nearest unit
\* (6.123233995736766e-17 is 18073 units). No other angle is modelled: its
\* cosine is no integer and has no value here.
CosDeg(a) ==
    CASE a \in {-360, 0, 360, 720} -> [exact |-> 1]
      [] a \in {-180, 180, 540} -> [exact |-> -1]
      [] a \in {-90, 90} -> [residue |-> 18073, fn |-> "cos", deg |-> a]
      [] a \in {-270, 270} -> [residue |-> -54218, fn |-> "cos", deg |-> a]
      [] a = 450 -> [residue |-> 90363, fn |-> "cos", deg |-> a]
      [] a = 630 -> [residue |-> -126508, fn |-> "cos", deg |-> a]

\* Math.sin((a * Math.PI) / 180) as a double, in the same way
\* (1.2246467991473532e-16 is 36145 units of 2^-68).
SinDeg(a) ==
    CASE a = 0 -> [exact |-> 0]
      [] a \in {-270, 90, 450} -> [exact |-> 1]
      [] a \in {-90, 270, 630} -> [exact |-> -1]
      [] a = 180 -> [residue |-> 36145, fn |-> "sin", deg |-> a]
      [] a = -180 -> [residue |-> -36145, fn |-> "sin", deg |-> a]
      [] a = 360 -> [residue |-> -72290, fn |-> "sin", deg |-> a]
      [] a = -360 -> [residue |-> 72290, fn |-> "sin", deg |-> a]
      [] a = 540 -> [residue |-> 108436, fn |-> "sin", deg |-> a]
      [] a = 720 -> [residue |-> -144581, fn |-> "sin", deg |-> a]

\* x + radius * c in double arithmetic, for integers x and radius and a
\* cosine or sine c from above. With c exact the sum is an integer. With a
\* residue the product is added to x and rounded to the nearest double: the
\* sum is x again when the product is below half an ulp of x, and otherwise
\* the double  near + ulps * 2^exp  beside x (255.99999999999997 is
\* 256 - 2^-45). An ulp of x is 2^(Log2(|x|) - 52), and half of that on the
\* side of zero when |x| is a power of two. With x = 0 the sum is the
\* product itself, the double radius * c. A product so close to the middle
\* of two doubles that the units above cannot tell the nearer has no value
\* here, nor has a sum with |x| or |radius| above 2047, where the units
\* leave the integers of the model checker.
PlusProduct(x, radius, c) ==
    IF "exact" \in DOMAIN c THEN x + radius * c.exact
    ELSE IF radius = 0 THEN x
    ELSE IF x = 0 THEN [product |-> radius, fn |-> c.fn, deg |-> c.deg]
    ELSE LET s == IF x > 0 THEN 1 ELSE -1
             X == Abs(x)
             P == s * radius * c.residue
             j == Log2(X)
             exp == IF P < 0 /\ X = Pow2(j) THEN j - 53 ELSE j - 52
             ulp == Pow2(exp + 68)
             A == Abs(P)
             k == (2 * A + ulp) \div (2 * ulp)
             fromMiddle == Abs(((2 * A) % (2 * ulp)) - ulp)
         IN CASE /\ X <= 2047 /\ Abs(radius) <= 2047
                 /\ fromMiddle > 2 * Abs(radius) /\ k = 0 -> x
              [] /\ X <= 2047 /\ Abs(radius) <= 2047
                 /\ fromMiddle > 2 * Abs(radius) /\ k # 0 ->
                     [near |-> x, exp |-> exp,
                      ulps |-> IF P > 0 THEN s * k ELSE -(s * k)]

\* --------------------------------------------------- DrawingContextImpl
\* new DrawingContextImpl(size)
NewContext(size) == [elements |-> <<>>, currentLayer |-> 0, canvasSize |-> size]

\* this.elements.push({ layer: this.currentLayer, svg })
Push(c, svg) ==
    [c EXCEPT !.elements = Append(@, [layer |-> c.currentLayer, svg |-> svg])]

Rect(c, x, y, width, height, opts) ==
    Push(c, [tag |-> "rect", x |-> x, y |-> y, width |-> width, height |-> height,
             fill |-> Opt(opts, "fill", "transparent"),
             stroke |-> Opt(opts, "stroke", "none"),
             strokeWidth |-> Opt(opts, "strokeWidth", DefaultStrokeWidth),
             rx |-> Opt(opts, "borderRadius", DefaultBorderRadius),
             opacity |-> Opt(opts, "opacity", DefaultOpacity)])

\* A faulty circle() that skips a radius that is not positive.
CircleSkipNonPositive(c, x, y, radius, opts) ==
    IF radius <= 0 THEN c
    ELSE Push(c, [tag |-> "circle", cx |-> x, cy |-> y, r |-> radius,
                  fill |-> Opt(opts, "fill", "transparent"),
                  stroke |-> Opt(opts, "stroke", "none"),
                  strokeWidth |-> Opt(opts, "strokeWidth", DefaultStrokeWidth),
                  opacity |-> Opt(opts, "opacity", DefaultOpacity)])

Circle(c, x, y, radius, opts) ==
    Push(c, [tag |-> "circle", cx |-> x, cy |-> y, r |-> radius,
             fill |-> Opt(opts, "fill", "transparent"),
             stroke |-> Opt(opts, "stroke", "none"),
             strokeWidth |-> Opt(opts, "strokeWidth", DefaultStrokeWidth),
             opacity |-> Opt(opts, "opacity", DefaultOpacity)])

Triangle(c, x1, y1, x2, y2, x3, y3, opts) ==
    Push(c, [tag |-> "polygon", points |-> <<<<x1, y1>>, <<x2, y2>>, <<x3, y3>>>>,
             fill |-> Opt(opts, "fill", "transparent"),
             stroke |-> Opt(opts, "stroke", "none"),
             strokeWidth |-> Opt(opts, "strokeWidth", DefaultStrokeWidth),
             opacity |-> Opt(opts, "opacity", DefaultOpacity)])

\* A faulty line() with the defaults of the shapes: no stroke, width 0.
LineShapeDefaults(c, x1, y1, x2, y2, opts) ==
    Push(c, [tag |-> "line", x1 |-> x1, y1 |-> y1, x2 |-> x2, y2 |-> y2,
             stroke |-> Opt(opts, "stroke", "none"),
             strokeWidth |-> Opt(opts, "width", DefaultStrokeWidth),
             opacity |-> Opt(opts, "opacity", DefaultOpacity)])

Line(c, x1, y1, x2, y2, opts) ==
    Push(c, [tag |-> "line", x1 |-> x1, y1 |-> y1, x2 |-> x2, y2 |-> y2,
             stroke |-> Opt(opts, "stroke", "#000"),
             strokeWidth |-> Opt(opts, "width", DefaultLineWidth),
             opacity |-> Opt(opts, "opacity", DefaultOpacity)])

\* A faulty path() that closes every path.
PathDAlwaysClosed(points, closed) ==
    <<[cmd |-> "M", x |-> points[1][1], y |-> points[1][2]]>>
    \o [i \in 1..(Len(points) - 1) |->
            [cmd |-> "L", x |-> points[i + 1][1], y |-> points[i + 1][2]]]
    \o <<[cmd |-> "Z"]>>

\* The d attribute of path(): M first, then L for each following point, then
\* Z when closed.
PathD(points, closed) ==
    <<[cmd |-> "M", x |-> points[1][1], y |-> points[1][2]]>>
    \o [i \in 1..(Len(points) - 1) |->
            [cmd |-> "L", x |-> points[i + 1][1], y |-> points[i + 1][2]]]
    \o (IF closed THEN <<[cmd |-> "Z"]>> ELSE <<>>)

Path(c, points, opts) ==
    IF Len(points) = 0 THEN c
    ELSE Push(c, [tag |-> "path", d |-> PathD(points, Opt(opts, "closed", FALSE)),
                  fill |-> Opt(opts, "fill", "transparent"),
                  stroke |-> Opt(opts, "stroke", "none"),
                  strokeWidth |-> Opt(opts, "strokeWidth", DefaultStrokeWidth),
                  opacity |-> Opt(opts, "opacity", DefaultOpacity)])

ArcD(x, y, radius, startAngle, endAngle) ==
    <<[cmd |-> "M", x |-> x, y |-> y],
      [cmd |-> "L", x |-> PlusProduct(x, radius, CosDeg(startAngle)),
                    y |-> PlusProduct(y, radius, SinDeg(startAngle))],
      [cmd |-> "A", rx |-> radius, ry |-> radius, rot |-> 0,
       largeArcFlag |-> IF Abs(endAngle - startAngle) > 180 THEN 1 ELSE 0,
       sweepFlag |-> IF endAngle > startAngle THEN 1 ELSE 0,
       x |-> PlusProduct(x, radius, CosDeg(endAngle)),
       y |-> PlusProduct(y, radius, SinDeg(endAngle))],
      [cmd |-> "Z"]>>

Arc(c, x, y, radius, startAngle, endAngle, opts) ==
    Push(c, [tag |-> "path", d |-> ArcD(x, y, radius, startAngle, endAngle),
             fill |-> Opt(opts, "fill", "transparent"),
             stroke |-> Opt(opts, "stroke", "none"),
             strokeWidth |-> Opt(opts, "strokeWidth", DefaultStrokeWidth),
             opacity |-> Opt(opts, "opacity", DefaultOpacity)])

Text(c, content, x, y, opts) ==
    Push(c, [tag |-> "text", x |-> x, y |-> y,
             fontFamily |-> Opt(opts, "font", "Arial"),
             fontSize |-> Opt(opts, "size", DefaultTextSize),
             fontWeight |-> Opt(opts, "weight", DefaultTextWeight),
             fill |-> Opt(opts, "fill", "#000"),
             opacity |-> Opt(opts, "opacity", DefaultOpacity),
             textAnchor |-> "middle", dominantBaseline |-> "central",
             content |-> EscapeContent(content)])

\* A faulty layer() that leaves the counter alone.
LayerKeep(c) == c

\* A faulty layer() that counts down.
LayerDown(c) == [c EXCEPT !.currentLayer = @ - 1]

\* A faulty layer() that lifts the elements drawn so far to the new layer.
LayerLiftsElements(c) ==
    [c EXCEPT !.currentLayer = @ + 1,
              !.elements = [i \in 1..Len(@) |->
                               [@[i] EXCEPT !.layer = c.currentLayer + 1]]]

\* layer(): this.currentLayer++
Layer(c) == [c EXCEPT !.currentLayer = @ + 1]

\* One builder call, given as a record [op, args, opts]: the method it names.
Apply(c, call) ==
    LET a == call.args
        o == call.opts
    IN CASE call.op = "rect" -> Rect(c, a[1], a[2], a[3], a[4], o)
         [] call.op = "circle" -> Circle(c, a[1], a[2], a[3], o)
         [] call.op = "triangle" -> Triangle(c, a[1], a[2], a[3], a[4], a[5], a[6], o)
         [] call.op = "line" -> Line(c, a[1], a[2], a[3], a[4], o)
         [] call.op = "path" -> Path(c, a, o)
         [] call.op = "arc" -> Arc(c, a[1], a[2], a[3], a[4], a[5], o)
         [] call.op = "text" -> Text(c, call.content, a[1], a[2], o)
         [] call.op = "layer" -> Layer(c)

\* [...this.elements].sort((a, b) => a.layer - b.layer): Array.prototype.sort
\* is stable, so this is an insertion of each element after the last element
\* whose layer is not greater.
\* A faulty comparator, b.layer - a.layer.
InsertDescending(sorted, el) ==
    LET before == {i \in 1..Len(sorted) : sorted[i].layer >= el.layer}
        k == IF before = {} THEN 0
             ELSE CHOOSE i \in before : \A j \in before : j <= i
    IN SubSeq(sorted, 1, k) \o <<el>> \o SubSeq(sorted, k + 1, Len(sorted))

InsertByLayer(sorted, el) ==
    LET before == {i \in 1..Len(sorted) : sorted[i].layer <= el.layer}
        k == IF before = {} THEN 0
             ELSE CHOOSE i \in before : \A j \in before : j <= i
    IN SubSeq(sorted, 1, k) \o <<el>> \o SubSeq(sorted, k + 1, Len(sorted))

RECURSIVE SortByLayer(_)
SortByLayer(els) ==
    IF els = <<>> THEN <<>>
    ELSE InsertByLayer(SortByLayer(SubSeq(els, 1, Len(els) - 1)), els[Len(els)])

\* A faulty toSVG() that empties the element list once it has rendered it.
AfterRenderDrained(c) == [c EXCEPT !.elements = <<>>]

\* The builder after toSVG(): sorted is a copy, no field of this is assigned.
AfterRender(c) == c

\* toSVG(): the svg element of the canvas size around the sorted elements'
\* markup, one per line.
ToSVG(c) ==
    LET sorted == SortByLayer(c.elements)
    IN [width |-> c.canvasSize, height |-> c.canvasSize,
        body |-> [i \in 1..Len(sorted) |-> sorted[i].svg]]

\* toPNG(size): sharp(svg).resize(targetSize, targetSize).png(). The raster is
\* kept as the document it was made from and the size it was resampled to.
\* The optional size is <<>> when omitted and <<n>> when given.
ToPNG(c, size) ==
    [svg |-> ToSVG(c), size |-> IF size = <<>> THEN c.canvasSize ELSE size[1]]

\* createDrawingContext(size = 512); the optional size as for ToPNG.
CreateDrawingContext(size) ==
    NewContext(IF size = <<>> THEN DefaultCanvasSize ELSE size[1])

\* ------------------------------------------------------------ SpecBuilder
\* The calls the model makes on the builder: for every method an ordinary
\* call and one with omitted options, negative, zero or off-canvas numbers.
RectCalls ==
    {[op |-> "rect", args |-> <<0, 0, 512, 512>>, opts |-> [fill |-> "#ffffff"]],
     [op |-> "rect", args |-> <<-10, 600, 5, 5>>, opts |-> NoOpts]}
CircleCalls ==
    {[op |-> "circle", args |-> <<256, 256, 100>>, opts |-> [fill |-> "#ff0000"]],
     [op |-> "circle", args |-> <<10, 10, 0>>, opts |-> NoOpts],
     [op |-> "circle", args |-> <<10, 10, -5>>, opts |-> [stroke |-> "#000"]]}
TriangleCalls ==
    {[op |-> "triangle", args |-> <<0, 0, 10, 0, 5, -8>>, opts |-> [opacity |-> 0]],
     [op |-> "triangle", args |-> <<1, 1, 1, 1, 1, 1>>, opts |-> NoOpts]}
LineCalls ==
    {[op |-> "line", args |-> <<0, 0, 512, 512>>, opts |-> [stroke |-> "#f00", width |-> 2]],
     [op |-> "line", args |-> <<-1, -1, 600, 600>>, opts |-> NoOpts]}
PathCalls ==
    {[op |-> "path", args |-> <<>>, opts |-> [fill |-> "#9933ff"]],
     [op |-> "path", args |-> <<<<1, 1>>>>, opts |-> NoOpts],
     [op |-> "path", args |-> <<<<5, 5>>, <<-5, 20>>>>, opts |-> [closed |-> FALSE]],
     [op |-> "path", args |-> <<<<0, 0>>, <<10, 0>>, <<10, -10>>>>,
      opts |-> [closed |-> TRUE, strokeWidth |-> 3]]}
ArcCalls ==
    {[op |-> "arc", args |-> <<256, 256, 100, 0, 90>>, opts |-> NoOpts],
     [op |-> "arc", args |-> <<256, 256, 80, 270, 0>>, opts |-> [fill |-> "#ff9900"]]}
TextCalls ==
    {[op |-> "text", content |-> <<"a", "<", "&">>, args |-> <<256, 256>>,
      opts |-> [size |-> 48]],
     [op |-> "text", content |-> <<>>, args |-> <<-3, 700>>, opts |-> NoOpts]}
LayerCall == [op |-> "layer", args |-> <<>>, opts |-> NoOpts]

DrawCalls ==
    RectCalls \cup CircleCalls \cup TriangleCalls \cup LineCalls \cup PathCalls
    \cup ArcCalls \cup TextCalls

CanvasSizes == {<<>>, <<64>>}

This == [ret |-> "this"]

InitDb ==
    /\ thread = <<>>
    /\ generation = <<>>
    /\ run = <<>>

InitHarness == exec = <<>>

InitBuilder ==
    /\ \E size \in CanvasSizes : ctx = CreateDrawingContext(size)
    /\ calls = <<>>
    /\ out = [ret |-> "none"]
    /\ InitHarness
    /\ InitDb

\* A builder method is called: it changes the builder and returns this.
BuilderCall(call) ==
    /\ Len(calls) < MaxCalls
    /\ ctx' = Apply(ctx, call)
    /\ calls' = Append(calls, call)
    /\ out' = This
    /\ UNCHANGED <<exec, thread, generation, run>>

RectCall == \E call \in RectCalls : BuilderCall(call)
CircleCall == \E call \in CircleCalls : BuilderCall(call)
TriangleCall == \E call \in TriangleCalls : BuilderCall(call)
LineCall == \E call \in LineCalls : BuilderCall(call)
PathCall == \E call \in PathCalls : BuilderCall(call)
ArcCall == \E call \in ArcCalls : BuilderCall(call)
TextCall == \E call \in TextCalls : BuilderCall(call)
LayerStep == BuilderCall(LayerCall)

ToSVGCall ==
    /\ out' = [ret |-> "svg", doc |-> ToSVG(ctx)]
    /\ ctx' = AfterRender(ctx)
    /\ UNCHANGED <<calls, exec, thread, generation, run>>

\* toPNG(size) renders what this.toSVG() returns.
ToPNGCall ==
    /\ \E size \in CanvasSizes : out' = [ret |-> "png", image |-> ToPNG(ctx, size)]
    /\ ctx' = AfterRender(ctx)
    /\ UNCHANGED <<calls, exec, thread, generation, run>>

NextBuilder ==
    \/ RectCall
    \/ CircleCall
    \/ TriangleCall
    \/ LineCall
    \/ PathCall
    \/ ArcCall
    \/ TextCall
    \/ LayerStep
    \/ ToSVGCall
    \/ ToPNGCall

SpecBuilder == InitBuilder /\ [][NextBuilder]_vars

\* --------------------------------------------------------------- SpecText
\* text() applied to every content of at most MaxContentLen characters over
\* the characters escaped and those an entity is written with.
ContentChars == {"&", "<", ">", "l", "t", ";"}

Contents == UNION {[1..n -> ContentChars] : n \in 0..MaxContentLen}

InitText ==
    /\ ctx = CreateDrawingContext(<<>>)
    /\ calls = <<>>
    /\ out = [ret |-> "none"]
    /\ InitHarness
    /\ InitDb

\* ctx.text(content, 256, 256) on a new builder.
TextOfContent ==
    /\ calls = <<>>
    /\ \E content \in Contents :
          LET call == [op |-> "text", content |-> content, args |-> <<256, 256>>,
                       opts |-> NoOpts]
          IN /\ ctx' = Apply(ctx, call)
             /\ calls' = <<call>>
    /\ out' = This
    /\ UNCHANGED <<exec, thread, generation, run>>

\* toSVG() on the builder that holds the text.
TextToSVG ==
    /\ calls # <<>>
    /\ out' = [ret |-> "svg", doc |-> ToSVG(ctx)]
    /\ ctx' = AfterRender(ctx)
    /\ UNCHANGED <<calls, exec, thread, generation, run>>

NextText ==
    \/ TextOfContent
    \/ TextToSVG

SpecText == InitText /\ [][NextText]_vars

\* -------------------------------------------------------------- SpecChain
\* The builder objects as a heap, to tell an object from a copy of it: a
\* method call on the object at ref changes that object in place and returns
\* a reference.
\* A faulty method that changes the object and returns a copy of it.
MethodReturnsCopy(heap, ref, call) ==
    [heap |-> Append([heap EXCEPT ![ref] = Apply(@, call)], Apply(heap[ref], call)),
     ret |-> Len(heap) + 1]

\* return this: the reference returned is the receiver.
Method(heap, ref, call) ==
    [heap |-> [heap EXCEPT ![ref] = Apply(@, call)], ret |-> ref]

\* The same calls are issued twice, in the same order: as separate statements
\* on the binding ctx, and as one chained expression, of which out holds the
\* heap and the reference the last call returned.
InitChain ==
    /\ \E size \in CanvasSizes :
          /\ ctx = CreateDrawingContext(size)
          /\ out = [ret |-> "chained", heap |-> <<CreateDrawingContext(size)>>,
                    this |-> 1]
    /\ calls = <<>>
    /\ InitHarness
    /\ InitDb

\* ctx.m(...) as a statement of its own, and .m(...) appended to the chain.
ChainCall(call) ==
    /\ Len(calls) < MaxCalls
    /\ ctx' = Method(<<ctx>>, 1, call).heap[1]
    /\ LET chained == Method(out.heap, out.this, call)
       IN out' = [ret |-> "chained", heap |-> chained.heap, this |-> chained.ret]
    /\ calls' = Append(calls, call)
    /\ UNCHANGED <<exec, thread, generation, run>>

ChainDraw == \E call \in DrawCalls : ChainCall(call)
ChainLayer == ChainCall(LayerCall)

NextChain ==
    \/ ChainDraw
    \/ ChainLayer

SpecChain == InitChain /\ [][NextChain]_vars

\* ------------------------------------------------------------ executeCode
\* A code string is given as what new Function makes of it: whether it
\* parses, the error it raises when it does not, and its statements in order.
\* A statement is a call on ctx, the one binding the code is given, or a
\* throw of an Error. Code that reaches for the host's global object is not
\* modelled. The tool calls of generateText are made with the semantics of the
\* ai package that has stopWhen: a rejected execute is a tool error of the
\* step and no entry of its toolResults, and generateText goes on.
ThrowStmt(message) ==
    [op |-> "throw", error |-> [name |-> "Error", message |-> message]]

WhiteRect == [op |-> "rect", args |-> <<0, 0, 512, 512>>, opts |-> [fill |-> "#ffffff"]]
RedCircle == [op |-> "circle", args |-> <<256, 256, 100>>, opts |-> [fill |-> "#ff0000"]]

CodeWhiteRed == [parses |-> TRUE, stmts |-> <<WhiteRect, LayerCall, RedCircle>>]
CodeRedCircle == [parses |-> TRUE, stmts |-> <<RedCircle>>]
CodeEmpty == [parses |-> TRUE, stmts |-> <<>>]
CodeThrows == [parses |-> TRUE, stmts |-> <<WhiteRect, ThrowStmt("boom")>>]
CodeSyntax ==
    [parses |-> FALSE, stmts |-> <<WhiteRect>>,
     error |-> [name |-> "SyntaxError", message |-> "Unexpected token"]]

Codes == {CodeWhiteRed, CodeRedCircle, CodeEmpty, CodeThrows, CodeSyntax}

\* buffer.toString('base64')
Base64(buffer) == [base64 |-> buffer]

\* executeCode up to its first await: the fresh context of line 196 and the
\* function made from the code on line 197, which throws when the code does
\* not parse.
\* A faulty harness whose context starts as the one of the call before.
CreateShared(code, size) ==
    [code |-> code, ip |-> 1, pngCalls |-> 0,
     ctx |-> IF exec = <<>> THEN CreateDrawingContext(size) ELSE exec[Len(exec)].ctx,
     pc |-> IF code.parses THEN "running" ELSE "rejected",
     result |-> IF code.parses THEN [ok |-> "pending"]
                ELSE [ok |-> "no", error |-> code.error]]

ExecuteCodeBegin(code, size) ==
    [code |-> code, ip |-> 1, pngCalls |-> 0,
     ctx |-> CreateDrawingContext(size),
     pc |-> IF code.parses THEN "running" ELSE "rejected",
     result |-> IF code.parses THEN [ok |-> "pending"]
                ELSE [ok |-> "no", error |-> code.error]]

\* A faulty harness that renders what was drawn before the code threw.
StatementPartialImage(x) ==
    LET stmt == x.code.stmts[x.ip]
    IN IF stmt.op = "throw"
       THEN [x EXCEPT !.pc = "resolved", !.pngCalls = @ + 1,
                      !.result = [ok |-> "yes", buffer |-> ToPNG(x.ctx, <<>>)]]
       ELSE [x EXCEPT !.ctx = Apply(@, stmt), !.ip = @ + 1]

\* await asyncFn(ctx), one statement of the code: a call changes the context
\* of this execution, a throw rejects the promise executeCode returned.
Statement(x) ==
    LET stmt == x.code.stmts[x.ip]
    IN IF stmt.op = "throw"
       THEN [x EXCEPT !.pc = "rejected", !.result = [ok |-> "no", error |-> stmt.error]]
       ELSE [x EXCEPT !.ctx = Apply(@, stmt), !.ip = @ + 1]

\* return ctx.toPNG(), reached when the code ran to its end.
Render(x) ==
    [x EXCEPT !.pc = "resolved", !.pngCalls = @ + 1,
              !.result = [ok |-> "yes", buffer |-> ToPNG(x.ctx, <<>>)]]

\* sharp rejects: the promise of toPNG, and so of executeCode, is rejected.
RenderFailure(x) ==
    [x EXCEPT !.pc = "rejected", !.pngCalls = @ + 1,
              !.result = [ok |-> "no",
                          error |-> [name |-> "Error", message |-> "sharp"]]]

\* The execute handler of imageEditorAgent around executeCode: the image as
\* base64, or the message of what was thrown.
ToolOutput(result) ==
    IF result.ok = "yes"
    THEN [success |-> TRUE, imageData |-> Base64(result.buffer)]
    ELSE [success |-> FALSE, error |-> result.error.message]

InitHarnessSpec ==
    /\ ctx = CreateDrawingContext(<<>>)
    /\ calls = <<>>
    /\ out = [ret |-> "none"]
    /\ InitHarness
    /\ InitDb

ExecStart ==
    /\ Len(exec) < MaxExecs
    /\ \E code \in Codes, size \in CanvasSizes :
          exec' = Append(exec, ExecuteCodeBegin(code, size))
    /\ UNCHANGED <<ctx, calls, out, thread, generation, run>>

ExecStatement ==
    /\ \E e \in 1..Len(exec) :
          /\ exec[e].pc = "running"
          /\ exec[e].ip <= Len(exec[e].code.stmts)
          /\ exec' = [exec EXCEPT ![e] = Statement(exec[e])]
    /\ UNCHANGED <<ctx, calls, out, thread, generation, run>>

ExecRender ==
    /\ \E e \in 1..Len(exec) :
          /\ exec[e].pc = "running"
          /\ exec[e].ip > Len(exec[e].code.stmts)
          /\ exec' = [exec EXCEPT ![e] = Render(exec[e])]
    /\ UNCHANGED <<ctx, calls, out, thread, generation, run>>

ExecRenderFailure ==
    /\ \E e \in 1..Len(exec) :
          /\ exec[e].pc = "running"
          /\ exec[e].ip > Len(exec[e].code.stmts)
          /\ exec' = [exec EXCEPT ![e] = RenderFailure(exec[e])]
    /\ UNCHANGED <<ctx, calls, out, thread, generation, run>>

NextHarness ==
    \/ ExecStart
    \/ ExecStatement
    \/ ExecRender
    \/ ExecRenderFailure

SpecHarness == InitHarnessSpec /\ [][NextHarness]_vars

\* ------------------------------------------------ properties of executeCode
RECURSIVE RunAlone(_, _)
\* The builder after the given statements were applied to c, none throwing.
RunAlone(c, stmts) ==
    IF stmts = <<>> THEN c
    ELSE Apply(RunAlone(c, SubSeq(stmts, 1, Len(stmts) - 1)), stmts[Len(stmts)])

\* The code fails: it does not parse, or one of its statements throws.
CodeFails(code) ==
    \/ ~code.parses
    \/ \E i \in 1..Len(code.stmts) : code.stmts[i].op = "throw"

\* What the code throws first.
FirstError(code) ==
    IF ~code.parses THEN code.error
    ELSE LET i == CHOOSE i \in 1..Len(code.stmts) :
                    /\ code.stmts[i].op = "throw"
                    /\ \A j \in 1..(i - 1) : code.stmts[j].op # "throw"
         IN code.stmts[i].error

\* C6: at every moment of every interleaving, the context of an executeCode
\* call holds exactly what the statements this call has run so far put into
\* an empty context of layer 0, and the image the call returns shows exactly
\* the elements its own code appended.
C6_ExecutionsIsolated ==
    \A e \in 1..Len(exec) :
        LET x == exec[e]
            own == RunAlone([elements |-> <<>>, currentLayer |-> 0,
                             canvasSize |-> x.ctx.canvasSize],
                            SubSeq(x.code.stmts, 1, x.ip - 1))
        IN /\ x.ctx = own
           /\ x.pc = "resolved" =>
                 /\ x.ip = Len(x.code.stmts) + 1
                 /\ x.result.buffer.svg.body =
                      [i \in 1..Len(own.elements) |-> own.elements[i].svg]

\* A call that drew after a failed call and beside a call that had drawn
\* more returned its own single element.
C6_Witness ==
    /\ Len(exec) = 3
    /\ exec[1].pc = "rejected" /\ Len(exec[1].ctx.elements) = 1
    /\ exec[2].pc = "running" /\ Len(exec[2].ctx.elements) = 2
    /\ exec[3].pc = "resolved" /\ Len(exec[3].result.buffer.svg.body) = 1

\* C7: a call whose code throws or does not parse ends rejected with the
\* error the code raised, carries no image, and toPNG was never called for it;
\* the tool output made of it is a failure carrying the original message.
C7_ErrorNoImage ==
    \A e \in 1..Len(exec) :
        LET x == exec[e]
        IN CodeFails(x.code) =>
             /\ x.pngCalls = 0
             /\ x.pc # "resolved"
             /\ "buffer" \notin DOMAIN x.result
             /\ x.pc = "rejected" =>
                   /\ x.result.error = FirstError(x.code)
                   /\ ToolOutput(x.result) =
                        [success |-> FALSE, error |-> FirstError(x.code).message]

\* A call was rejected by a throw after its code had drawn an element, and
\* another by a syntax error.
C7_Witness ==
    /\ \E e \in 1..Len(exec) :
          /\ exec[e].pc = "rejected"
          /\ exec[e].code.parses
          /\ Len(exec[e].ctx.elements) = 1
          /\ exec[e].result.error.message = "boom"
    /\ \E e \in 1..Len(exec) :
          /\ exec[e].pc = "rejected"
          /\ ~exec[e].code.parses

\* ------------------------------------------- the router and the agent runs
\* Ids made by nanoid() are the row's index; a parent_id column that is NULL
\* holds Null, and an option the caller left out is Undefined.
Null == 0
Undefined == 0 - 1

Users == {"ann", "bob"}
ThreadPrompt == "a pelican"
ContinuePrompt == "make it red"

\* A tool call whose code runs to its end and whose toPNG is rejected by
\* sharp.
CodeRenderFails == [parses |-> TRUE, stmts |-> <<RedCircle>>, sharp |-> "rejects"]

\* The code the model submits in a tool call.
AgentCodes == {CodeRedCircle, CodeWhiteRed, CodeThrows, CodeRenderFails}

\* A JavaScript value used as a condition.
Truthy(v) == v # Undefined /\ v # Null

\* The value a column gets from an insert: an undefined value is left out of
\* the statement and the column takes its default, NULL.
Column(v) == IF v = Undefined THEN Null ELSE v

RECURSIVE RunToEnd(_)
\* executeCode run on its own: the statements in order, then toPNG.
RunToEnd(x) ==
    IF x.pc # "running" THEN x
    ELSE IF x.ip <= Len(x.code.stmts) THEN RunToEnd(Statement(x))
    ELSE IF "sharp" \in DOMAIN x.code THEN RenderFailure(x)
    ELSE Render(x)

ExecuteCode(code, size) == RunToEnd(ExecuteCodeBegin(code, size)).result

RECURSIVE RunToEncoder(_)
\* executeCode up to its first wait: the code of a tool call awaits nothing,
\* so its statements run as soon as the handler is called, and the call is
\* rejected by then or waits for the encoder that toPNG started.
RunToEncoder(x) ==
    IF x.pc # "running" \/ x.ip > Len(x.code.stmts) THEN x
    ELSE RunToEncoder(Statement(x))

\* The call of the execute handler leaves an encoder to wait for.
ReachesEncoder(code) ==
    RunToEncoder(ExecuteCodeBegin(code, <<DefaultCanvasSize>>)).pc = "running"

\* A faulty execute handler that catches the error and returns an output
\* without an image, so that every call has a tool result.
ToolResultsOfAll(codes) ==
    [i \in 1..Len(codes) |->
        LET result == ExecuteCode(codes[i], <<DefaultCanvasSize>>)
        IN [toolName |-> "executeCode",
            output |-> [code |-> codes[i],
                        buffer |-> IF result.ok = "yes" THEN result.buffer ELSE <<>>,
                        imageData |-> IF result.ok = "yes" THEN Base64(result.buffer)
                                      ELSE Base64(<<>>)]]]

\* The execute handler of simpleImageEditorAgent's tool: the output of a
\* call whose executeCode resolved. A rejected executeCode makes the tool call
\* a tool error, which is no member of the step's toolResults.
ToolResultsOf(codes) ==
    LET results == [i \in 1..Len(codes) |->
                        [code |-> codes[i],
                         result |-> ExecuteCode(codes[i], <<DefaultCanvasSize>>)]]
        done == SelectSeq(results, LAMBDA t : t.result.ok = "yes")
    IN [i \in 1..Len(done) |->
            [toolName |-> "executeCode",
             output |-> [code |-> done[i].code, buffer |-> done[i].result.buffer,
                         imageData |-> Base64(done[i].result.buffer)]]]

\* runThread's call: simpleImageEditorAgent(t.prompt, { threadId }).
RunThreadOptions(threadId) == [threadId |-> threadId, parentId |-> Undefined]

\* continueFromGeneration's call: the generation's thread, code and image;
\* no parentId is passed.
ContinueOptions(gen) ==
    [threadId |-> gen.threadId, parentId |-> Undefined,
     initialCode |-> gen.code, initialImage |-> gen.imageData]

\* A request as it arrives, before its first database statement.
Request(proc, user, input) ==
    [proc |-> proc, user |-> user, input |-> input, pc |-> "arrived",
     instruction |-> "", options |-> RunThreadOptions(Null),
     lastGenerationId |-> Undefined, steps |-> 0, pending |-> <<>>,
     settled |-> <<>>, toolCalls |-> <<>>, inflight |-> {},
     ended |-> "no", resolved |-> 0, inserted |-> <<>>, writes |-> <<>>,
     abortAt |-> "none", response |-> "none"]

Reject(req, error) == [req EXCEPT !.pc = "rejected", !.response = error]

\* The agent is called: everything up to its first await, the update of the
\* thread status on line 49.
CallAgent(req, instruction, options) ==
    [req EXCEPT !.pc = "starting", !.instruction = instruction, !.options = options]

\* runThread, from the findFirst of the thread to the call of the agent.
RunThreadBegin(req) ==
    LET id == req.input.threadId
    IN IF id \notin 1..Len(thread) \/ thread[id].userId # req.user
       THEN Reject(req, "NOT_FOUND")
       ELSE IF thread[id].status = "running"
       THEN Reject(req, "BAD_REQUEST")
       ELSE CallAgent(req, thread[id].prompt, RunThreadOptions(id))

\* continueFromGeneration, from the findFirst of the generation with its
\* thread to the call of the agent.
ContinueBegin(req) ==
    LET id == req.input.generationId
    IN IF id \notin 1..Len(generation)
          \/ thread[generation[id].threadId].userId # req.user
       THEN Reject(req, "NOT_FOUND")
       ELSE IF thread[generation[id].threadId].status = "running"
       THEN Reject(req, "BAD_REQUEST")
       ELSE CallAgent(req, req.input.prompt, ContinueOptions(generation[id]))

\* A faulty deleteThread that does not compare the thread's user.
DeleteBeginAnyUser(req) ==
    LET id == req.input.threadId
    IN IF id \notin 1..Len(thread) \/ thread[id].deletedAt # "null"
       THEN Reject(req, "NOT_FOUND")
       ELSE [req EXCEPT !.pc = "deleting"]

\* deleteThread's findFirst, which does not see a deleted thread.
DeleteBegin(req) ==
    LET id == req.input.threadId
    IN IF id \notin 1..Len(thread) \/ thread[id].deletedAt # "null"
          \/ thread[id].userId # req.user
       THEN Reject(req, "NOT_FOUND")
       ELSE [req EXCEPT !.pc = "deleting"]

\* A faulty agent that swallows the error and goes on to its last lines.
ThrowSwallowed(req, where) ==
    [req EXCEPT !.pc = "finished", !.abortAt = where, !.pending = <<>>,
                !.settled = <<>>]

\* A rejected await inside the agent: the router's catch block is next.
Throw(req, where) ==
    [req EXCEPT !.pc = "caught", !.abortAt = where, !.pending = <<>>,
                !.settled = <<>>]

\* let lastGenerationId = parentId, after the status update of line 49.
AgentStarted(req) ==
    [req EXCEPT !.pc = "generating", !.lastGenerationId = req.options.parentId,
                !.writes = Append(@, "running")]

\* A faulty onStepFinish that writes the new id into parentId.
GenerationRowSelfParent(req, genId, output) ==
    [id |-> genId, threadId |-> req.options.threadId,
     parentId |-> genId, type |-> "debug",
     prompt |-> req.instruction, code |-> output.code,
     imageData |-> output.imageData]

\* A faulty onStepFinish that takes the parent from the options every time.
GenerationRowFromOption(req, genId, output) ==
    [id |-> genId, threadId |-> req.options.threadId,
     parentId |-> Column(req.options.parentId), type |-> "debug",
     prompt |-> req.instruction, code |-> output.code,
     imageData |-> output.imageData]

\* The row onStepFinish inserts for one tool result.
GenerationRow(req, genId, output) ==
    [id |-> genId, threadId |-> req.options.threadId,
     parentId |-> Column(req.lastGenerationId), type |-> "debug",
     prompt |-> req.instruction, code |-> output.code,
     imageData |-> output.imageData]

\* A faulty loop condition without stopWhen: the loop goes on while the model
\* calls tools.
AfterStepNoLimit(req, lastCall) ==
    IF req.pending # <<>> THEN [req EXCEPT !.pc = "inserting", !.ended = lastCall]
    ELSE [req EXCEPT !.pc = "generating", !.ended = "no"]

\* generateText's loop condition after a step whose tool calls all have an
\* output: another step unless stepCountIs(10) is met. While the results of
\* the step are inserted, ended holds whether the last tool call of the step
\* resolved; afterwards it is how generateText returned: with a text answer,
\* or stopped at the step limit after a step whose last tool call resolved or
\* was rejected.
AfterStep(req, lastCall) ==
    IF req.pending # <<>> THEN [req EXCEPT !.pc = "inserting", !.ended = lastCall]
    ELSE IF req.steps >= StepLimit
    THEN [req EXCEPT !.pc = "finished",
                     !.ended = IF lastCall = "rejected" THEN "limit, call rejected"
                               ELSE "limit, call resolved"]
    ELSE [req EXCEPT !.pc = "generating", !.ended = "no"]

\* for (const result of toolResults ?? []): the result of this turn.
NextToolResult(req) == Head(req.pending)

\* A faulty update whose where clause matches no row.
MarkNoRow(gens, id) == gens

\* A faulty update that sets the prompt of the row with the type.
MarkFinalWithPrompt(gens, id) ==
    [gens EXCEPT ![id].type = "final", ![id].prompt = "final"]

\* db.update(generation).set({ type: 'final' }).where(eq(generation.id, id))
MarkFinal(gens, id) == [gens EXCEPT ![id].type = "final"]

\* A faulty catch block that reports the run as completed.
CatchStatusCompleted == "completed"

\* A faulty agent that never retags.
RetagNever(req) == FALSE

\* A faulty condition that takes undefined for an id: lastGenerationId !== null.
RetagUnlessNull(req) == req.lastGenerationId # Null

\* if (lastGenerationId && lastGenerationId !== parentId)
ShouldRetag(req) ==
    Truthy(req.lastGenerationId) /\ req.lastGenerationId # req.options.parentId

CatchStatus == "failed"

\* The request is answered: the locals of the agent call are gone. What the
\* run inserted and wrote stays on record with the response.
Respond(req, pc, response, status) ==
    [req EXCEPT !.pc = pc, !.response = response, !.writes = Append(@, status),
                !.lastGenerationId = Undefined, !.steps = 0, !.resolved = 0,
                !.ended = "no"]

RECURSIVE DebugChainLoopPush(_, _, _)
\* A faulty getDebugChain that pushes where it should unshift.
DebugChainLoopPush(generations, current, chain) ==
    LET found == {i \in 1..Len(generations) : generations[i].id = current.parentId}
    IN IF found = {} THEN chain
       ELSE LET parent == generations[CHOOSE i \in found : \A j \in found : i <= j]
            IN DebugChainLoopPush(generations, parent,
                                  IF parent.type = "debug" THEN Append(chain, parent)
                                  ELSE chain)

RECURSIVE DebugChainLoop(_, _, _)
\* The while loop of getDebugChain: find the parent of current among the
\* generations, put it in front of the chain when it is debug, go on from it.
DebugChainLoop(generations, current, chain) ==
    LET found == {i \in 1..Len(generations) : generations[i].id = current.parentId}
    IN IF found = {} THEN chain
       ELSE LET parent == generations[CHOOSE i \in found : \A j \in found : i <= j]
            IN DebugChainLoop(generations, parent,
                              IF parent.type = "debug" THEN <<parent>> \o chain
                              ELSE chain)

\* getDebugChain(generations, finalGen)
GetDebugChain(generations, finalGen) == DebugChainLoop(generations, finalGen, <<>>)

\* getFinalGenerations(generations)
GetFinalGenerations(generations) == SelectSeq(generations, LAMBDA g : g.type = "final")

\* The tool calls of one step: one call, or two calls made in parallel.
ToolCallLists ==
    {<<CodeRedCircle>>, <<CodeThrows>>, <<CodeRenderFails>>,
     <<CodeWhiteRed, CodeThrows, CodeRedCircle>>}

\* What the execute handlers of a step come to, for each answer of the
\* model: the calls that wait for an encoder, the calls that resolve, the
\* output of each of these, and the toolResults of the step.
HandlersOf ==
    [codes \in ToolCallLists |->
        LET ok == {i \in 1..Len(codes) :
                      ExecuteCode(codes[i], <<DefaultCanvasSize>>).ok = "yes"}
        IN [waiting |-> {i \in 1..Len(codes) : ReachesEncoder(codes[i])},
            resolving |-> ok,
            result |-> [i \in ok |-> ToolResultsOf(<<codes[i]>>)[1]],
            toolResults |-> ToolResultsOf(codes)]]

\* The results of a request that are to become rows: those handed to
\* onStepFinish and not yet inserted, and while the handlers of a step run,
\* those that resolved and those that will.
Outstanding(req) ==
    IF req.pc = "executing"
    THEN Len(req.settled)
         + Cardinality(req.inflight \cap HandlersOf[req.toolCalls].resolving)
    ELSE Len(req.pending)

RECURSIVE SumPending(_)
SumPending(reqs) ==
    IF reqs = <<>> THEN 0 ELSE Outstanding(Head(reqs)) + SumPending(Tail(reqs))

\* The handlers of a step have all settled: generateText hands the results
\* of the calls that resolved to onStepFinish, in the order of the calls,
\* and goes on as stopWhen says.
StepDone(req) ==
    AfterStep([req EXCEPT !.pending = HandlersOf[req.toolCalls].toolResults,
                          !.toolCalls = <<>>, !.inflight = {}],
              IF Len(req.toolCalls) \in HandlersOf[req.toolCalls].resolving
              THEN "resolved" ELSE "rejected")

\* db.update(thread).set({ status }) by request r; statusBy records whose
\* update the status is (history).
SetStatus(id, status, r) ==
    thread' = [thread EXCEPT ![id].status = status, ![id].statusBy = r]

Init ==
    /\ ctx = CreateDrawingContext(<<>>)
    /\ calls = <<>>
    /\ out = [ret |-> "none"]
    /\ InitHarness
    /\ InitDb

\* createThread: a new row with status pending. The users are alike, so the
\* threads are all made by the first.
CreateThread ==
    /\ Len(thread) < MaxThreads
    /\ \E user \in {"ann"} :
          thread' = Append(thread, [id |-> Len(thread) + 1, userId |-> user,
                                    prompt |-> ThreadPrompt, status |-> "pending",
                                    statusBy |-> 0, deletedAt |-> "null"])
    /\ UNCHANGED <<ctx, calls, out, exec, generation, run>>

RunThreadArrive ==
    /\ Len(run) < MaxRuns
    /\ \E user \in Users, id \in 1..MaxThreads :
          run' = Append(run, RunThreadBegin(
                                Request("runThread", user, [threadId |-> id])))
    /\ UNCHANGED <<ctx, calls, out, exec, thread, generation>>

ContinueArrive ==
    /\ Len(run) < MaxRuns
    /\ \E user \in Users, id \in 1..MaxGens :
          run' = Append(run, ContinueBegin(
                                Request("continueFromGeneration", user,
                                        [generationId |-> id,
                                         prompt |-> ContinuePrompt])))
    /\ UNCHANGED <<ctx, calls, out, exec, thread, generation>>

DeleteArrive ==
    /\ Len(run) < MaxRuns
    /\ \E user \in Users, id \in 1..MaxThreads :
          run' = Append(run, DeleteBegin(
                                Request("deleteThread", user, [threadId |-> id])))
    /\ UNCHANGED <<ctx, calls, out, exec, thread, generation>>

\* deleteThread's update: deletedAt = new Date().
DeleteUpdate ==
    /\ \E r \in 1..Len(run) :
          /\ run[r].pc = "deleting"
          /\ thread' = [thread EXCEPT ![run[r].input.threadId].deletedAt = "set"]
          /\ run' = [run EXCEPT ![r].pc = "done", ![r].response = "success"]
    /\ UNCHANGED <<ctx, calls, out, exec, generation>>

\* Line 49: the thread becomes running, then lastGenerationId is set.
AgentSetRunning ==
    /\ \E r \in 1..Len(run) :
          /\ run[r].pc = "starting"
          /\ SetStatus(run[r].options.threadId, "running", r)
          /\ run' = [run EXCEPT ![r] = AgentStarted(run[r])]
    /\ UNCHANGED <<ctx, calls, out, exec, generation>>

\* The insert of onStepFinish rejects: generateText, and with it the agent,
\* throws. (The updates of the thread status and of the type are taken to
\* return, like the update in the router's catch block.)
InsertFails ==
    /\ \E r \in 1..Len(run) :
          /\ run[r].pc = "inserting"
          /\ run' = [run EXCEPT ![r] = Throw(run[r], "insert")]
    /\ UNCHANGED <<ctx, calls, out, exec, thread, generation>>

\* A step in which the model answers with text only: generateText returns.
ModelText ==
    /\ \E r \in 1..Len(run) :
          /\ run[r].pc = "generating"
          /\ run' = [run EXCEPT ![r].steps = @ + 1, ![r].pc = "finished",
                                ![r].ended = "text"]
    /\ UNCHANGED <<ctx, calls, out, exec, thread, generation>>

\* The model answers with calls of executeCode: the step is counted and the
\* execute handlers are called, each running its code up to the encoder. The
\* calls whose code failed are rejected; the others wait, and while they do
\* other requests go on. When no call waits the step is over at once.
ModelToolCalls ==
    /\ \E r \in 1..Len(run), codes \in ToolCallLists :
          LET started == [run[r] EXCEPT
                             !.steps = @ + 1, !.pc = "executing",
                             !.toolCalls = codes,
                             !.inflight = HandlersOf[codes].waiting]
          IN /\ run[r].pc = "generating"
             /\ Len(generation) + SumPending(run)
                   + Len(HandlersOf[codes].toolResults) <= MaxGens
             /\ run' = [run EXCEPT ![r] = IF started.inflight = {}
                                          THEN StepDone(started) ELSE started]
    /\ UNCHANGED <<ctx, calls, out, exec, thread, generation>>

\* The encoder of one waiting call finishes, in no fixed order among the
\* calls of the step: the handler returns its output or is rejected with
\* the encoder's error. After the last of them the step is over.
ToolSettle ==
    /\ \E r \in 1..Len(run) :
          /\ run[r].pc = "executing"
          /\ \E i \in run[r].inflight :
                LET handlers == HandlersOf[run[r].toolCalls]
                    ok == i \in handlers.resolving
                    after == [run[r] EXCEPT
                                 !.inflight = @ \ {i},
                                 !.settled = IF ok THEN Append(@, handlers.result[i])
                                             ELSE @,
                                 !.resolved = IF ok THEN @ + 1 ELSE @]
                IN run' = [run EXCEPT ![r] = IF after.inflight = {}
                                             THEN StepDone(after) ELSE after]
    /\ UNCHANGED <<ctx, calls, out, exec, thread, generation>>

\* The model call rejects: generateText, and with it the agent, throws.
ModelFails ==
    /\ \E r \in 1..Len(run) :
          /\ run[r].pc = "generating"
          /\ run' = [run EXCEPT ![r] = Throw(run[r], "step")]
    /\ UNCHANGED <<ctx, calls, out, exec, thread, generation>>

\* onStepFinish, one turn of its loop: the insert, then lastGenerationId.
InsertGeneration ==
    /\ \E r \in 1..Len(run) :
          LET genId == Len(generation) + 1
          IN /\ run[r].pc = "inserting"
             /\ generation' = Append(generation,
                                GenerationRow(run[r], genId, NextToolResult(run[r]).output))
             /\ run' = [run EXCEPT ![r] = AfterStep(
                           [run[r] EXCEPT !.lastGenerationId = genId,
                                          !.inserted = Append(@, genId),
                                          !.pending = Tail(@),
                                          !.settled = SelectSeq(@,
                                              LAMBDA t : t # NextToolResult(run[r]))],
                           run[r].ended)]
    /\ UNCHANGED <<ctx, calls, out, exec, thread>>

\* Lines 164-169: the last generation of the run becomes final.
Retag ==
    /\ \E r \in 1..Len(run) :
          /\ run[r].pc = "finished"
          /\ ShouldRetag(run[r])
          /\ generation' = MarkFinal(generation, run[r].lastGenerationId)
          /\ run' = [run EXCEPT ![r].pc = "completing"]
    /\ UNCHANGED <<ctx, calls, out, exec, thread>>

\* Line 172: the thread becomes completed and the agent returns.
SetCompleted ==
    /\ \E r \in 1..Len(run) :
          /\ \/ run[r].pc = "completing"
             \/ run[r].pc = "finished" /\ ~ShouldRetag(run[r])
          /\ SetStatus(run[r].options.threadId, "completed", r)
          /\ run' = [run EXCEPT ![r] = Respond(run[r], "done", "completed", "completed")]
    /\ UNCHANGED <<ctx, calls, out, exec, generation>>

\* The catch block of runThread and continueFromGeneration.
Catch ==
    /\ \E r \in 1..Len(run) :
          /\ run[r].pc = "caught"
          /\ SetStatus(run[r].options.threadId, CatchStatus, r)
          /\ run' = [run EXCEPT ![r] = Respond(run[r], "failed", "INTERNAL_SERVER_ERROR",
                                                CatchStatus)]
    /\ UNCHANGED <<ctx, calls, out, exec, generation>>

Next ==
    \/ CreateThread
    \/ RunThreadArrive
    \/ ContinueArrive
    \/ DeleteArrive
    \/ DeleteUpdate
    \/ AgentSetRunning
    \/ InsertFails
    \/ ModelText
    \/ ModelToolCalls
    \/ ToolSettle
    \/ ModelFails
    \/ InsertGeneration
    \/ Retag
    \/ SetCompleted
    \/ Catch

Spec == Init /\ [][Next]_vars

\* The steps of an agent call and of the catch block around it: each is an
\* await of the model or of the database, which is taken to settle.
AgentStep ==
    \/ AgentSetRunning
    \/ ModelText
    \/ ModelToolCalls
    \/ ToolSettle
    \/ ModelFails
    \/ InsertGeneration
    \/ InsertFails
    \/ Retag
    \/ SetCompleted
    \/ Catch

\* Spec with every started agent call going on to its end.
SpecLive == Spec /\ WF_vars(AgentStep)

\* ------------------------------------------------------------- DbStorage
\* The class DbStorage of the two storage modules: the three statements of
\* the agent above as methods, and the save of the earlier imageEditorAgent.
\* No entry point constructs a DbStorage: the command-line scripts hand the
\* agent a FileStorage, which writes files and leaves both tables alone, and
\* the router calls the agent that holds its statements itself. The methods
\* are therefore no step of Spec. SpecStorage is the two tables under a
\* caller that does hold a DbStorage and calls its methods in any order.

\* The string a caller may pass as status.
Statuses == {"pending", "running", "completed", "failed"}

\* DbStorage.updateThreadStatus(threadId, status): the status of the rows
\* with that id, whatever the status; no row when the id is unknown. The
\* update is no request's (statusBy 0).
UpdateThreadStatus(threads, threadId, status) ==
    [i \in DOMAIN threads |->
        IF threads[i].id = threadId
        THEN [threads[i] EXCEPT !.status = status, !.statusBy = 0]
        ELSE threads[i]]

\* DbStorage.saveGeneration(data): the row as the caller made it.
SaveGeneration(gens, data) == Append(gens, data)

\* DbStorage.markGenerationAsFinal(id): the type of the rows with that id;
\* no row when the id is unknown.
MarkGenerationAsFinal(gens, id) ==
    [i \in DOMAIN gens |->
        IF gens[i].id = id THEN [gens[i] EXCEPT !.type = "final"] ELSE gens[i]]

\* DbStorage.save(threadId, result) of the earlier module: a row with a new
\* id and no parentId, type or prompt, which the columns default to NULL,
\* 'final' and NULL.
Save(gens, threadId, result) ==
    Append(gens, [id |-> Len(gens) + 1, threadId |-> threadId,
                  parentId |-> Column(Undefined), type |-> "final",
                  prompt |-> Column(Undefined), code |-> result.code,
                  imageData |-> result.imageData])

\* The results a caller has to store: those of the codes that run to an image.
StoredResults ==
    {ToolResultsOf(<<code>>)[1].output : code \in {CodeRedCircle, CodeWhiteRed}}

DbUpdateThreadStatus ==
    /\ \E threadId \in 1..MaxThreads, status \in Statuses :
          thread' = UpdateThreadStatus(thread, threadId, status)
    /\ UNCHANGED <<ctx, calls, out, exec, generation, run>>

\* The insert rejects a row whose thread_id has no thread (foreign key);
\* parent_id has no such constraint.
DbSaveGeneration ==
    /\ Len(generation) < MaxGens
    /\ \E threadId \in DOMAIN thread, parentId \in {Null} \cup (1..MaxGens),
          type \in {"debug", "final"}, result \in StoredResults :
          generation' = SaveGeneration(generation,
                           [id |-> Len(generation) + 1, threadId |-> threadId,
                            parentId |-> parentId, type |-> type,
                            prompt |-> ThreadPrompt, code |-> result.code,
                            imageData |-> result.imageData])
    /\ UNCHANGED <<ctx, calls, out, exec, thread, run>>

DbMarkGenerationAsFinal ==
    /\ \E id \in 1..MaxGens :
          generation' = MarkGenerationAsFinal(generation, id)
    /\ UNCHANGED <<ctx, calls, out, exec, thread, run>>

DbSave ==
    /\ Len(generation) < MaxGens
    /\ \E threadId \in DOMAIN thread, result \in StoredResults :
          generation' = Save(generation, threadId, result)
    /\ UNCHANGED <<ctx, calls, out, exec, thread, run>>

NextStorage ==
    \/ CreateThread
    \/ DbUpdateThreadStatus
    \/ DbSaveGeneration
    \/ DbMarkGenerationAsFinal
    \/ DbSave

SpecStorage == Init /\ [][NextStorage]_vars

\* ------------------------------------------------- properties of the builder
DrawOps == {"rect", "circle", "triangle", "line", "path", "arc", "text"}

\* The markup element a drawing method emits.
TagOf(op) ==
    CASE op = "rect" -> "rect"
      [] op = "circle" -> "circle"
      [] op = "triangle" -> "polygon"
      [] op = "line" -> "line"
      [] op = "path" -> "path"
      [] op = "arc" -> "path"
      [] op = "text" -> "text"

\* A drawing call other than path with an empty point list.
IsDrawing(call) ==
    /\ call.op \in DrawOps
    /\ ~(call.op = "path" /\ Len(call.args) = 0)

LayerCallsIn(log) == Cardinality({i \in 1..Len(log) : log[i].op = "layer"})

\* body lists the markup of els by layer ascending, equal layers in the
\* order of els.
StableLayerOrder(els, body) ==
    /\ Len(body) = Len(els)
    /\ \E p \in Permutations(1..Len(els)) :
          /\ \A i \in 1..Len(els) : body[i] = els[p[i]].svg
          /\ \A i, j \in 1..Len(els) :
                i < j => \/ els[p[i]].layer < els[p[j]].layer
                         \/ /\ els[p[i]].layer = els[p[j]].layer
                            /\ p[i] < p[j]

\* C8: whatever calls were made on the builder, toSVG lists the elements by
\* layer ascending, and elements of the same layer in insertion order.
C8_ToSVGStableLayerOrder ==
    out.ret = "svg" => StableLayerOrder(ctx.elements, out.doc.body)

\* toSVG was called on a builder holding two different elements of one layer,
\* drawn after a layer() call.
C8_Witness ==
    /\ out.ret = "svg"
    /\ Len(ctx.elements) = 2
    /\ ctx.elements[1].layer = 1
    /\ ctx.elements[2].layer = 1
    /\ ctx.elements[1].svg # ctx.elements[2].svg
    /\ out.doc.body = <<ctx.elements[1].svg, ctx.elements[2].svg>>

\* C9: the layer counter is 0 before any call, a layer() call adds exactly 1
\* to it, and every other operation (drawing, toSVG, toPNG) leaves it as it
\* is; so it never decreases.
C9_LayerCounter ==
    /\ [](calls = <<>> => ctx.currentLayer = 0)
    /\ [][ctx'.currentLayer =
            IF calls' # calls /\ calls'[Len(calls')].op = "layer"
            THEN ctx.currentLayer + 1
            ELSE ctx.currentLayer]_vars

\* layer() was called twice and a drawing call followed.
C9_Witness ==
    /\ ctx.currentLayer = 2
    /\ Len(calls) >= 3
    /\ calls[Len(calls)].op # "layer"

\* C10: a drawing call (path only with points) appends exactly one element to
\* the end of the list, of the method's kind and tagged with the layer counter
\* as it is when the call is made; the elements before it stay.
C10_DrawAppendsOne ==
    [][\A call \in DrawCalls :
         (calls' = Append(calls, call) /\ IsDrawing(call)) =>
            /\ Len(ctx'.elements) = Len(ctx.elements) + 1
            /\ SubSeq(ctx'.elements, 1, Len(ctx.elements)) = ctx.elements
            /\ ctx'.elements[Len(ctx'.elements)].layer = ctx.currentLayer
            /\ ctx'.elements[Len(ctx'.elements)].svg.tag = TagOf(call.op)]_vars

\* A circle of negative radius was appended on layer 1 behind another element.
C10_Witness ==
    /\ Len(calls) = 3
    /\ calls[3].op = "circle"
    /\ calls[3].args[3] < 0
    /\ Len(ctx.elements) = 2
    /\ ctx.elements[2].layer = 1
    /\ ctx.elements[2].svg.tag = "circle"

\* C11: a circle() call with a radius that is not positive leaves the element
\* list as it was, and returns the builder without raising.
C11_CircleNonPositiveNoOp ==
    [][\A call \in CircleCalls :
         (calls' = Append(calls, call) /\ call.args[3] <= 0) =>
            /\ ctx'.elements = ctx.elements
            /\ out' = This]_vars

\* C12: path([]) leaves the builder as it was and returns it; path with
\* k >= 1 points appends one path element whose d moves to the first point,
\* draws a line to each following point in the given order, and ends with a
\* closing Z exactly when closed is set.
C12_PathPolyline ==
    [][\A call \in PathCalls :
         calls' = Append(calls, call) =>
            LET points == call.args
                k == Len(points)
                closed == "closed" \in DOMAIN call.opts /\ call.opts.closed
            IN /\ out' = This
               /\ k = 0 => ctx' = ctx
               /\ k >= 1 =>
                     LET el == ctx'.elements[Len(ctx'.elements)]
                     IN /\ ctx'.elements = Append(ctx.elements, el)
                        /\ el.svg.tag = "path"
                        /\ Len(el.svg.d) = k + (IF closed THEN 1 ELSE 0)
                        /\ el.svg.d[1] = [cmd |-> "M", x |-> points[1][1],
                                                      y |-> points[1][2]]
                        /\ \A i \in 2..k :
                              el.svg.d[i] = [cmd |-> "L", x |-> points[i][1],
                                                          y |-> points[i][2]]
                        /\ closed => el.svg.d[k + 1] = [cmd |-> "Z"]]_vars

\* An empty path was followed by an open path of two points and a closed path
\* of three: two elements, of two and of four commands.
C12_Witness ==
    /\ Len(calls) = 3
    /\ \A i \in 1..3 : calls[i].op = "path"
    /\ Len(calls[1].args) = 0
    /\ Len(ctx.elements) = 2
    /\ Len(ctx.elements[1].svg.d) = 2
    /\ Len(ctx.elements[2].svg.d) = 4
    /\ ctx.elements[2].svg.d[4].cmd = "Z"

\* C13: every call of a chained expression returns the object it was called
\* on, not a copy, so after any sequence of calls the one builder of the chain
\* has the element list and the current layer of the builder on which the
\* same calls were made as separate statements.
C13_ChainedEqualsSeparate ==
    /\ out.this = 1
    /\ Len(out.heap) = 1
    /\ out.heap[out.this].elements = ctx.elements
    /\ out.heap[out.this].currentLayer = ctx.currentLayer
    /\ out.heap[1] = ctx

\* Three calls were made, a layer() between two drawing calls.
C13_Witness ==
    /\ Len(calls) = 3
    /\ calls[1].op = "rect"
    /\ calls[2].op = "layer"
    /\ calls[3].op = "text"
    /\ Len(out.heap[out.this].elements) = 2
    /\ out.heap[out.this].currentLayer = 1

\* C20: no operation on the builder (drawing, layer(), toSVG, toPNG) removes
\* an element or changes the layer or the markup of an element already in the
\* list.
C20_ElementsFixed ==
    [][/\ Len(ctx'.elements) >= Len(ctx.elements)
       /\ \A i \in 1..Len(ctx.elements) :
             /\ ctx'.elements[i].layer = ctx.elements[i].layer
             /\ ctx'.elements[i].svg = ctx.elements[i].svg]_vars

\* An element drawn on layer 0 is still on layer 0 after a layer() call, a
\* second drawing call and a toSVG that lists both.
C20_Witness ==
    /\ Len(calls) = 3
    /\ calls[2].op = "layer"
    /\ Len(ctx.elements) = 2
    /\ ctx.elements[1].layer = 0
    /\ ctx.elements[2].layer = 1
    /\ out.ret = "svg"
    /\ Len(out.doc.body) = 2

\* C21: toSVG and toPNG leave the element list, the current layer and the
\* canvas size as they are; toSVG called again with no call between returns
\* the same document, and toPNG of the same size the same image; and the
\* document is the one of a second builder of the same canvas size that
\* received the same calls.
C21_RenderReadOnlyDeterministic ==
    /\ [](out.ret = "svg" =>
             out.doc = ToSVG(RunAlone(NewContext(ctx.canvasSize), calls)))
    /\ [][calls' = calls =>
             /\ ctx'.elements = ctx.elements
             /\ ctx'.currentLayer = ctx.currentLayer
             /\ ctx'.canvasSize = ctx.canvasSize
             /\ (out.ret = "svg" /\ out'.ret = "svg") => out'.doc = out.doc
             /\ (out.ret = "png" /\ out'.ret = "png"
                 /\ out'.image.size = out.image.size) => out'.image = out.image]_vars

\* toSVG returned the document of a canvas of 64 with three elements, the
\* text drawn first listed first.
C21_Witness ==
    /\ out.ret = "svg"
    /\ out.doc.width = 64
    /\ Len(calls) = 3
    /\ Len(out.doc.body) = 3
    /\ out.doc.body[1].tag = "text"
    /\ Len(ctx.elements) = 3

StartsWith(s, pre) == Len(s) >= Len(pre) /\ SubSeq(s, 1, Len(pre)) = pre

RECURSIVE Unescape(_)
\* The text a reader of the markup gets: each entity, left to right, is the
\* character it stands for.
Unescape(s) ==
    IF s = <<>> THEN <<>>
    ELSE IF StartsWith(s, Amp) THEN <<"&">> \o Unescape(SubSeq(s, Len(Amp) + 1, Len(s)))
    ELSE IF StartsWith(s, Lt) THEN <<"<">> \o Unescape(SubSeq(s, Len(Lt) + 1, Len(s)))
    ELSE IF StartsWith(s, Gt) THEN <<">">> \o Unescape(SubSeq(s, Len(Gt) + 1, Len(s)))
    ELSE <<Head(s)>> \o Unescape(Tail(s))

\* C22: the content text() emits has no raw '<' or '>', every '&' in it is
\* the start of &amp;, &lt; or &gt;, un-escaping it gives the content the
\* call was given, and it is this escaped content that toSVG lists.
C22_TextEscaped ==
    calls # <<>> =>
        LET emitted == ctx.elements[1].svg.content
        IN /\ \A p \in 1..Len(emitted) :
                 /\ emitted[p] # "<"
                 /\ emitted[p] # ">"
                 /\ emitted[p] = "&" =>
                       LET rest == SubSeq(emitted, p, Len(emitted))
                       IN StartsWith(rest, Amp) \/ StartsWith(rest, Lt)
                          \/ StartsWith(rest, Gt)
           /\ Unescape(emitted) = calls[1].content
           /\ out.ret = "svg" => out.doc.body[1].content = emitted

\* The content given was itself the text of an entity, "&lt;": its ampersand
\* was escaped, and toSVG listed the result.
C22_Witness ==
    /\ calls # <<>>
    /\ calls[1].content = <<"&", "l", "t", ";">>
    /\ ctx.elements[1].svg.content = <<"&", "a", "m", "p", ";", "l", "t", ";">>
    /\ out.ret = "svg"

\* The name of the option that sets the stroke width of the call's element.
WidthOption(call) == IF call.op = "line" THEN "width" ELSE "strokeWidth"

\* The element a drawing call has just appended.
Appended == ctx'.elements[Len(ctx'.elements)].svg

\* C23 as stated: whatever the drawing operation, an omitted style field is
\* fill transparent, stroke none, stroke width 0, opacity 1, text size 16,
\* text weight 400.
C23_OmittedStyleDefaults ==
    [][\A call \in DrawCalls :
         (calls' = Append(calls, call) /\ IsDrawing(call)) =>
            /\ ("fill" \in DOMAIN Appended /\ "fill" \notin DOMAIN call.opts) =>
                  Appended.fill = "transparent"
            /\ ("stroke" \in DOMAIN Appended /\ "stroke" \notin DOMAIN call.opts) =>
                  Appended.stroke = "none"
            /\ ("strokeWidth" \in DOMAIN Appended
                /\ WidthOption(call) \notin DOMAIN call.opts) =>
                  Appended.strokeWidth = 0
            /\ "opacity" \notin DOMAIN call.opts => Appended.opacity = 1
            /\ (call.op = "text" /\ "size" \notin DOMAIN call.opts) =>
                  Appended.fontSize = 16
            /\ (call.op = "text" /\ "weight" \notin DOMAIN call.opts) =>
                  Appended.fontWeight = 400]_vars

\* C23 as amended: the defaults are those for rect, circle, triangle, path
\* and arc; line defaults to stroke #000 of width 1, and text to fill #000;
\* opacity 1, text size 16 and text weight 400 as stated.
C23_OmittedStyleDefaultsPerOperation ==
    [][\A call \in DrawCalls :
         (calls' = Append(calls, call) /\ IsDrawing(call)) =>
            /\ ("fill" \in DOMAIN Appended /\ "fill" \notin DOMAIN call.opts) =>
                  Appended.fill = IF call.op = "text" THEN "#000" ELSE "transparent"
            /\ ("stroke" \in DOMAIN Appended /\ "stroke" \notin DOMAIN call.opts) =>
                  Appended.stroke = IF call.op = "line" THEN "#000" ELSE "none"
            /\ ("strokeWidth" \in DOMAIN Appended
                /\ WidthOption(call) \notin DOMAIN call.opts) =>
                  Appended.strokeWidth = IF call.op = "line" THEN 1 ELSE 0
            /\ "opacity" \notin DOMAIN call.opts => Appended.opacity = 1
            /\ (call.op = "text" /\ "size" \notin DOMAIN call.opts) =>
                  Appended.fontSize = 16
            /\ (call.op = "text" /\ "weight" \notin DOMAIN call.opts) =>
                  Appended.fontWeight = 400]_vars

\* A rect, a line and a text were drawn without options: the rect
\* transparent without stroke, the line black of width 1, the text black of
\* size 16 and weight 400.
C23_Witness ==
    /\ Len(calls) = 3
    /\ calls[1].op = "rect" /\ calls[1].opts = NoOpts
    /\ calls[2].op = "line" /\ calls[2].opts = NoOpts
    /\ calls[3].op = "text" /\ calls[3].opts = NoOpts
    /\ ctx.elements[1].svg.fill = "transparent"
    /\ ctx.elements[1].svg.stroke = "none"
    /\ ctx.elements[2].svg.stroke = "#000"
    /\ ctx.elements[2].svg.strokeWidth = 1
    /\ ctx.elements[3].svg.fill = "#000"
    /\ ctx.elements[3].svg.fontSize = 16

\* C28: in every state of the builder the layers of the element list do not
\* decrease along the list, so the document of toSVG lists the elements in
\* the order in which they were drawn.
C28_InsertionOrderIsLayerOrder ==
    /\ \A i, j \in 1..Len(ctx.elements) :
          i < j => ctx.elements[i].layer <= ctx.elements[j].layer
    /\ out.ret = "svg" =>
          out.doc.body = [i \in 1..Len(ctx.elements) |-> ctx.elements[i].svg]

\* toSVG listed a triangle of layer 0 before a line of layer 1.
C28_Witness ==
    /\ out.ret = "svg"
    /\ Len(ctx.elements) = 2
    /\ ctx.elements[1].layer = 0 /\ ctx.elements[1].svg.tag = "polygon"
    /\ ctx.elements[2].layer = 1 /\ ctx.elements[2].svg.tag = "line"
    /\ out.doc.body[2].tag = "line"

\* ------------------------------------------------- properties of the lineage
AgentProcs == {"runThread", "continueFromGeneration"}

\* The rows a run inserted, oldest first.
NodesOf(r) == [k \in 1..Len(run[r].inserted) |-> generation[run[r].inserted[k]]]

\* C1: every tool result of executeCode that resolved gets exactly one row,
\* inserted as debug; its parentId is the id of the row the same run inserted
\* just before it, and for the first row of a run the parentId the run was
\* given (NULL when none was given).
C1_DebugNodeChain ==
    /\ \A r \in 1..Len(run) :
          /\ run[r].pc \in {"generating", "finished"} =>
                Len(run[r].inserted) = run[r].resolved
          /\ run[r].pc = "inserting" =>
                Len(run[r].inserted) + Len(run[r].pending) = run[r].resolved
          /\ run[r].pc = "executing" =>
                /\ run[r].pending = <<>>
                /\ Len(run[r].inserted) + Len(run[r].settled) = run[r].resolved
          /\ \A k \in 1..Len(run[r].inserted) :
                LET g == NodesOf(r)[k]
                IN /\ g.id = run[r].inserted[k]
                   /\ g.threadId = run[r].options.threadId
                   /\ g.parentId = IF k = 1 THEN Column(run[r].options.parentId)
                                   ELSE run[r].inserted[k - 1]
                   /\ run[r].pc \in {"generating", "executing", "inserting",
                                     "finished"} =>
                         g.type = "debug"
    /\ \A id \in 1..Len(generation) :
          Cardinality({rk \in (1..Len(run)) \X (1..MaxGens) :
                          /\ rk[2] <= Len(run[rk[1]].inserted)
                          /\ run[rk[1]].inserted[rk[2]] = id}) = 1

\* A run recorded three nodes in a chain starting at NULL, the last two from
\* one step with a failing call between them.
C1_Witness ==
    \E r \in 1..Len(run) :
        /\ run[r].pc = "generating"
        /\ run[r].steps = 2
        /\ Len(run[r].inserted) = 3
        /\ NodesOf(r)[1].parentId = Null
        /\ NodesOf(r)[2].parentId = run[r].inserted[1]
        /\ NodesOf(r)[3].parentId = run[r].inserted[2]
        /\ NodesOf(r)[3].code = CodeRedCircle

\* C2: when a run that recorded nodes has completed normally, its last node
\* is final and all its other nodes are debug.
C2_LastNodeFinal ==
    \A r \in 1..Len(run) :
        (run[r].proc \in AgentProcs /\ run[r].pc = "done" /\ run[r].inserted # <<>>) =>
            \A k \in 1..Len(run[r].inserted) :
                NodesOf(r)[k].type =
                    IF k = Len(run[r].inserted) THEN "final" ELSE "debug"

\* A run of three recorded nodes completed.
C2_Witness ==
    \E r \in 1..Len(run) :
        /\ run[r].pc = "done"
        /\ run[r].response = "completed"
        /\ Len(run[r].inserted) = 3
        /\ NodesOf(r)[3].type = "final"

\* The agent threw while generateText was running.
AbortedInRun(r) == run[r].abortAt \in {"step", "insert"}

\* C3: when the agent throws at a step boundary, the run retags none of its
\* nodes (they stay debug) and never writes the status completed; the catch
\* block writes failed, which is the thread's status until another request
\* writes it.
C3_AbortedRunFails ==
    \A r \in 1..Len(run) :
        AbortedInRun(r) =>
            /\ \A k \in 1..Len(run[r].inserted) : NodesOf(r)[k].type = "debug"
            /\ \A i \in 1..Len(run[r].writes) : run[r].writes[i] # "completed"
            /\ run[r].pc \in {"caught", "failed"}
            /\ run[r].pc = "failed" =>
                  /\ run[r].writes[Len(run[r].writes)] = "failed"
                  /\ thread[run[r].options.threadId].statusBy = r =>
                        thread[run[r].options.threadId].status = "failed"

\* A run that had recorded two nodes was aborted by a failing model call and
\* left its thread failed.
C3_Witness ==
    \E r \in 1..Len(run) :
        /\ run[r].pc = "failed"
        /\ run[r].abortAt = "step"
        /\ Len(run[r].inserted) = 2
        /\ thread[run[r].options.threadId].statusBy = r
        /\ thread[run[r].options.threadId].status = "failed"

\* C4: a run that stops at the step limit with its last executeCode call
\* failed retags no node and leaves the thread failed.
C4_StepBudgetExhaustedFails ==
    [][\A r \in 1..Len(run) :
         (/\ run[r].pc \in {"finished", "completing"}
          /\ run[r].steps = StepLimit
          /\ run[r].ended = "limit, call rejected"
          /\ run'[r] # run[r]) =>
            /\ \A k \in 1..Len(run[r].inserted) :
                  generation'[run[r].inserted[k]].type = "debug"
            /\ thread'[run[r].options.threadId].status # "completed"]_vars

\* C5: the first node of a run started by continueFromGeneration for the
\* generation X has parentId X.
C5_ContinueParentIsX ==
    \A r \in 1..Len(run) :
        (run[r].proc = "continueFromGeneration" /\ run[r].inserted # <<>>) =>
            NodesOf(r)[1].parentId = run[r].input.generationId

RECURSIVE Walk(_, _)
\* The node reached from id by following parentId at most n times, stopping
\* at a node without a parent or at a parent that is not stored.
Walk(id, n) ==
    IF n = 0 \/ generation[id].parentId = Null
       \/ generation[id].parentId \notin 1..Len(generation)
    THEN id
    ELSE Walk(generation[id].parentId, n - 1)

\* C14: the parentId of every stored node is NULL or the id of a node stored
\* before it (ids are given in the order of the inserts), so there is no
\* dangling parent and no cycle, and following parentId from any node ends at
\* a node whose parentId is NULL within as many steps as there are nodes.
C14_ParentChainsReachRoot ==
    \A id \in 1..Len(generation) :
        /\ \/ generation[id].parentId = Null
           \/ generation[id].parentId \in 1..(id - 1)
        /\ generation[Walk(id, Len(generation))].parentId = Null

\* Three nodes in one chain, and following parentId from the last reaches the
\* first, which has none.
C14_Witness ==
    /\ Len(generation) = 3
    /\ generation[3].parentId = 2
    /\ generation[2].parentId = 1
    /\ generation[1].parentId = Null
    /\ Walk(3, 3) = 1

\* The request r is a deleteThread call that has just arrived.
DeleteArrived(r) ==
    /\ Len(run') = Len(run) + 1
    /\ r = Len(run')
    /\ run'[r].proc = "deleteThread"

C16_NodeImmutableButType ==
    [][\A id \in 1..Len(generation) :
         /\ generation'[id].id = generation[id].id
         /\ generation'[id].threadId = generation[id].threadId
         /\ generation'[id].parentId = generation[id].parentId
         /\ generation'[id].prompt = generation[id].prompt
         /\ generation'[id].code = generation[id].code
         /\ generation'[id].imageData = generation[id].imageData
         /\ \/ generation'[id].type = generation[id].type
            \/ generation[id].type = "debug" /\ generation'[id].type = "final"]_vars

\* A node was made final by one run, and a second run on the same thread
\* recorded a node and made that final too.
C16_Witness ==
    /\ Len(generation) >= 2
    /\ generation[1].type = "final"
    /\ generation[Len(generation)].type = "final"
    /\ \E r \in 1..Len(run) :
          /\ run[r].pc = "done"
          /\ run[r].inserted = <<Len(generation)>>

\* C17: a run persists the results of its executeCode calls in the order in
\* which the calls completed: the row a run inserts is that of the result
\* that settled first among those not yet persisted. New results arrive only
\* when all earlier ones are persisted, and the parentId of the row is the id
\* of the run's previous row, which is stored when the insert is made.
C17_PersistedInCompletionOrder ==
    [][\A r \in 1..Len(run) :
         /\ Len(run'[r].inserted) > Len(run[r].inserted) =>
               LET row == generation'[Len(generation')]
               IN /\ run[r].pending # <<>>
                  /\ run[r].settled # <<>>
                  /\ run'[r].inserted = Append(run[r].inserted, row.id)
                  /\ generation' = Append(generation, row)
                  /\ row.code = Head(run[r].settled).output.code
                  /\ row.imageData = Head(run[r].settled).output.imageData
                  /\ run'[r].settled = Tail(run[r].settled)
                  /\ run[r].inserted # <<>> =>
                        /\ row.parentId = run[r].inserted[Len(run[r].inserted)]
                        /\ row.parentId \in 1..Len(generation)
         /\ Len(run'[r].pending) > Len(run[r].pending) =>
               run[r].pending = <<>>]_vars

\* C18: a run in which the insert of onStepFinish was rejected never writes
\* the status completed; it ends in the catch block, whose write is failed,
\* and failed is the thread's status for as long as the write is this run's.
C18_InsertFailureFails ==
    \A r \in 1..Len(run) :
        run[r].abortAt = "insert" =>
            /\ run[r].pc \in {"caught", "failed"}
            /\ \A i \in 1..Len(run[r].writes) : run[r].writes[i] # "completed"
            /\ run[r].pc = "failed" =>
                  /\ run[r].response = "INTERNAL_SERVER_ERROR"
                  /\ run[r].writes = <<"running", "failed">>
                  /\ thread[run[r].options.threadId].statusBy = r =>
                        thread[run[r].options.threadId].status = "failed"

\* The second insert of a run was rejected after the first had stored a row:
\* the run ended failed and so is the thread.
C18_Witness ==
    \E r \in 1..Len(run) :
        /\ run[r].abortAt = "insert"
        /\ run[r].pc = "failed"
        /\ Len(run[r].inserted) = 1
        /\ thread[run[r].options.threadId].statusBy = r
        /\ thread[run[r].options.threadId].status = "failed"

\* The last handler of a step of run r settles: with the model's answer when
\* no call of the step has an encoder to wait for, else with the last encoder.
StepEnds(r) ==
    \/ /\ run[r].pc = "generating"
       /\ run'[r].steps = run[r].steps + 1
       /\ run'[r].ended # "text"
       /\ run'[r].pc # "executing"
    \/ /\ run[r].pc = "executing"
       /\ run'[r].pc # "executing"

\* A step of run r in which the model called executeCode ends and no call of
\* it resolved: the calls that resolved are the rows the run had before.
FailedAttempt(r) ==
    /\ StepEnds(r)
    /\ run'[r].resolved = Len(run[r].inserted)

\* C19: no stored row is of a call that failed; a step whose executeCode
\* calls all failed leaves the table, the rows of the run and its
\* lastGenerationId as they were; and the row of the next call that resolves
\* has as parentId the row the run recorded last.
C19_FailedAttemptRecordsNothing ==
    /\ [](\A id \in 1..Len(generation) :
             ExecuteCode(generation[id].code, <<DefaultCanvasSize>>).ok = "yes")
    /\ [][\A r \in 1..Len(run) :
             /\ FailedAttempt(r) =>
                   /\ generation' = generation
                   /\ run'[r].inserted = run[r].inserted
                   /\ run'[r].pending = <<>>
                   /\ run'[r].lastGenerationId = run[r].lastGenerationId
             /\ run[r].pc = "executing" =>
                   /\ run'[r].inserted = run[r].inserted
                   /\ run'[r].lastGenerationId = run[r].lastGenerationId
             /\ (Len(run'[r].inserted) > Len(run[r].inserted)
                 /\ run[r].inserted # <<>>) =>
                   generation'[Len(generation')].parentId =
                       run[r].inserted[Len(run[r].inserted)]]_vars

\* A run made three steps and recorded two nodes of single calls, the second
\* the child of the first: one step in between or around them failed.
C19_Witness ==
    \E r \in 1..Len(run) :
        /\ run[r].pc = "generating"
        /\ run[r].steps = 3
        /\ run[r].resolved = 2
        /\ Len(run[r].inserted) = 2
        /\ NodesOf(r)[1].code = CodeRedCircle
        /\ NodesOf(r)[2].code = CodeRedCircle
        /\ NodesOf(r)[2].parentId = NodesOf(r)[1].id

\* The agent call of a request is under way: called, and neither returned nor
\* answered by the catch block.
ActivePcs ==
    {"starting", "generating", "executing", "inserting", "finished", "completing",
     "caught"}

\* C24: no two agent runs are active on one thread at the same time.
C24_OneActiveRunPerThread ==
    \A r1, r2 \in 1..Len(run) :
        (/\ r1 # r2
         /\ run[r1].pc \in ActivePcs
         /\ run[r2].pc \in ActivePcs) =>
            run[r1].options.threadId # run[r2].options.threadId

\* C25: a run that recorded nodes has made its last node final before it
\* writes the status completed: between the two the node is final and the
\* status not yet written, and whenever the status completed of a thread is
\* the write of such a run, the run's last node is final.
C25_FinalBeforeCompleted ==
    \A r \in 1..Len(run) :
        (run[r].proc \in AgentProcs /\ run[r].inserted # <<>>) =>
            LET last == NodesOf(r)[Len(run[r].inserted)]
                t == thread[run[r].options.threadId]
                wroteCompleted == \E i \in 1..Len(run[r].writes) :
                                     run[r].writes[i] = "completed"
            IN /\ run[r].pc = "completing" => (last.type = "final" /\ ~wroteCompleted)
               /\ wroteCompleted => last.type = "final"
               /\ (t.status = "completed" /\ t.statusBy = r) => last.type = "final"

\* The status completed of a thread is the write of a run of two nodes, the
\* second of which is final and the first debug.
C25_Witness ==
    \E r \in 1..Len(run) :
        /\ Len(run[r].inserted) = 2
        /\ thread[run[r].options.threadId].status = "completed"
        /\ thread[run[r].options.threadId].statusBy = r
        /\ NodesOf(r)[2].type = "final"
        /\ NodesOf(r)[1].type = "debug"

C27_NoNodeNoRetag ==
    [][\A r \in 1..Len(run) :
         (/\ run[r].proc \in AgentProcs
          /\ run[r].pc = "finished"
          /\ run[r].inserted = <<>>
          /\ run'[r] # run[r]) =>
            /\ generation' = generation
            /\ run[r].proc = "continueFromGeneration" =>
                  generation'[run[r].input.generationId].type =
                      generation[run[r].input.generationId].type
            /\ run'[r].pc = "done"
            /\ run'[r].response = "completed"
            /\ thread'[run[r].options.threadId].status = "completed"]_vars

\* A run that continued from a final generation recorded nothing and
\* completed: the generation is still final.
C27_Witness ==
    \E r \in 1..Len(run) :
        /\ run[r].proc = "continueFromGeneration"
        /\ run[r].pc = "done"
        /\ run[r].response = "completed"
        /\ run[r].inserted = <<>>
        /\ generation[run[r].input.generationId].type = "final"
        /\ thread[run[r].options.threadId].status = "completed"
        /\ thread[run[r].options.threadId].statusBy = r

\* All rows of table generation of one thread.
ThreadGenerations(t) == SelectSeq(generation, LAMBDA g : g.threadId = t)

\* The orders in which a query that names no order may return rows.
AnyOrder(rows) ==
    {[i \in 1..Len(rows) |-> rows[p[i]]] :
        p \in {q \in [1..Len(rows) -> 1..Len(rows)] :
                  \A i, j \in 1..Len(rows) : q[i] = q[j] => i = j}}

\* getThread: what the query may answer. NOT_FOUND when there is no such
\* thread, when it is deleted, and when it is another user's; else the thread
\* with its generations, in an order the database chooses (the column
\* stepNumber, by which the query orders them, is none of the table).
GetThread(user, threadId) ==
    IF \/ threadId \notin DOMAIN thread
       \/ thread[threadId].deletedAt # "null"
       \/ thread[threadId].userId # user
    THEN {[error |-> "NOT_FOUND"]}
    ELSE {[id |-> threadId, userId |-> thread[threadId].userId,
           prompt |-> thread[threadId].prompt,
           status |-> thread[threadId].status,
           deletedAt |-> thread[threadId].deletedAt,
           generations |-> rows] :
             rows \in AnyOrder(SelectSeq(generation,
                                        LAMBDA g : g.threadId = threadId))}

\* C29: for every final generation F, getDebugChain over the generations of
\* F's thread returns the rows that F's run recorded before F, oldest first,
\* all of them debug, and no row of another run; and so it does over the
\* generations that getThread returns to a user it answers, in whatever order
\* they come.
C29_DebugChainOfRun ==
    \A r \in 1..Len(run) :
        LET n == Len(run[r].inserted)
        IN (n >= 1 /\ NodesOf(r)[n].type = "final") =>
              LET F == NodesOf(r)[n]
                  chain == GetDebugChain(ThreadGenerations(F.threadId), F)
              IN /\ chain = [k \in 1..(n - 1) |-> NodesOf(r)[k]]
                 /\ \A k \in 1..Len(chain) : chain[k].type = "debug"
                 /\ F \in {GetFinalGenerations(ThreadGenerations(F.threadId))[i] :
                              i \in 1..Len(GetFinalGenerations(
                                               ThreadGenerations(F.threadId)))}
                 /\ \A user \in Users :
                       \A t \in GetThread(user, F.threadId) :
                          "generations" \in DOMAIN t =>
                              GetDebugChain(t.generations, F) = chain

\* A run of three rows completed: the chain of its final row is its two
\* debug rows, the older first, over the generations getThread returns to
\* the owner, also when they come newest first.
C29_Witness ==
    \E r \in 1..Len(run) :
        /\ Len(run[r].inserted) = 3
        /\ NodesOf(r)[3].type = "final"
        /\ \A t \in GetThread("ann", NodesOf(r)[3].threadId) :
              /\ "generations" \in DOMAIN t
              /\ GetDebugChain(t.generations, NodesOf(r)[3])
                   = <<NodesOf(r)[1], NodesOf(r)[2]>>
        /\ \E t \in GetThread("ann", NodesOf(r)[3].threadId) :
              t.generations = <<NodesOf(r)[3], NodesOf(r)[2], NodesOf(r)[1]>>
        /\ GetThread("bob", NodesOf(r)[3].threadId) = {[error |-> "NOT_FOUND"]}
        /\ GetDebugChain(ThreadGenerations(NodesOf(r)[3].threadId), NodesOf(r)[3])
             = <<NodesOf(r)[1], NodesOf(r)[2]>>
        /\ NodesOf(r)[1].code # NodesOf(r)[2].code

\* C30: a runThread or continueFromGeneration request for a thread whose
\* deletedAt is set is rejected, and in no step does such a thread change
\* its status or get a new generation.
C30_DeletedThreadFrozen ==
    [][/\ \A r \in 1..Len(run') :
             (/\ r > Len(run)
              /\ run'[r].proc = "runThread"
              /\ run'[r].input.threadId \in 1..Len(thread)
              /\ thread[run'[r].input.threadId].deletedAt # "null") =>
                 run'[r].pc = "rejected"
       /\ \A r \in 1..Len(run') :
             (/\ r > Len(run)
              /\ run'[r].proc = "continueFromGeneration"
              /\ run'[r].input.generationId \in 1..Len(generation)
              /\ thread[generation[run'[r].input.generationId].threadId].deletedAt
                    # "null") =>
                 run'[r].pc = "rejected"
       /\ \A t \in 1..Len(thread) :
             thread[t].deletedAt # "null" =>
                /\ thread'[t].status = thread[t].status
                /\ \A id \in (Len(generation) + 1)..Len(generation') :
                      generation'[id].threadId # t]_vars

====
